---- MODULE Spec2Model ----
(***************************************************************************)
(* Model of calc_kda_smz.py: smz_stats(smz_duration, smz_radius, smz_x,    *)
(* smz_y, infile).  One run of smz_stats is a state machine:               *)
(*   "init" : the trace has been read (sections 1-4), tables not yet built *)
(*   "sim"  : section 6, one action per trace sample                       *)
(*   "out"  : section 7, one action per record written to the .sta file    *)
(*   "done" : the summary line has been printed                            *)
(*   "crashed" : an uncaught Python exception ended the run                *)
(*   "load" : sections 2-4 of a run that reads a given file (LoadSpec)      *)
(* gen_traj.py is modelled by GenSpec ("gen_read", "gen_write", "gen_done").*)
(* Coordinates are taken on a line y = const so that every math.sqrt is an *)
(* exact integer; d_bar and the printed means are exact rationals <<n,d>>. *)
(* Times are >= 0 and far below SIM_TIME, coordinates lie inside the       *)
(* region [0,3000]^2, as in the .srt files the program is written for.     *)
(***************************************************************************)
EXTENDS Integers, Sequences, FiniteSets, TLC

\* ---------- bounds of the model ------------------------------------------
MaxId == 3
MaxTick == 2
TickLen == 15
MaxSamples == 4
MaxRuns == 2
MaxRecords == 2
GenLines == 2
SweepSamples == 1

\* ---------- program constants --------------------------------------------
SIM_TIME == 2000
edge_threshold == 20
REGION == 3000

\* ---------- inputs of smz_stats enumerated by the model ------------------
Durations == {25}
Radii == {100}
Center == <<100, 100>>
smz_x == Center[1]
smz_y == Center[2]
Points == {<<0, 100>>, <<5, 100>>, <<15, 100>>, <<100, 100>>}
Times == {TickLen * n : n \in 0..MaxTick}
Ids == 1..MaxId

VARIABLES
  pc,
  smz_duration, smz_radius,
  min_cid, max_cid,
  i, cur_t, v, cur_x, cur_y,
  smz_grp, k, d_bar, anon_duration, anon_begin,
  vehx, vehy, veh_begin_x, veh_begin_y, veh_end_x, veh_end_y,
  smz_entry_time, smz_exit_time, region_exit_time, veh_exit_flag,
  smz_total, smz_count,
  d_sum, d_count,
  sta, k_sum, a_sum, k_sum_indiv, d_sum_indiv, a_sum_indiv,
  counter, counter_indiv, count_total, summary,
  \* the sweep of section 0: number of the current call of smz_stats
  run,
  \* sections 2-4: the input file, the read position, the loaded arrays
  infile, ln, wd, times, cid, curx, cury,
  \* gen_traj.py: the trace file, its remaining arrays, loop variables, output
  mmts, finx, finy, elapsed, ti, tt, gen_out

parmVars == <<smz_duration, smz_radius, min_cid, max_cid>>
sampleVars == <<i, cur_t, cur_x, cur_y>>
vehVars == <<smz_grp, k, d_bar, anon_duration, anon_begin,
             vehx, vehy, veh_begin_x, veh_begin_y, veh_end_x, veh_end_y,
             smz_entry_time, smz_exit_time, region_exit_time, veh_exit_flag>>
grpVars == <<smz_total, smz_count>>
aggVars == <<sta, k_sum, a_sum, k_sum_indiv, d_sum_indiv, a_sum_indiv,
             counter, counter_indiv, count_total, summary>>
loadVars == <<infile, ln, wd, times, cid, curx, cury>>
genVars == <<mmts, finx, finy, elapsed, ti, tt, gen_out>>
outerVars == <<run, loadVars, genVars>>
vars == <<pc, parmVars, sampleVars, v, vehVars, grpVars, d_sum, d_count, aggVars,
          outerVars>>

\* ---------- arithmetic helpers -------------------------------------------
RECURSIVE SqrtSearch(_, _, _)
SqrtSearch(n, lo, hi) ==
  IF lo >= hi THEN lo
  ELSE LET mid == (lo + hi + 1) \div 2
       IN IF mid * mid <= n THEN SqrtSearch(n, mid, hi)
                            ELSE SqrtSearch(n, lo, mid - 1)

\* math.sqrt on the squared distances of the model (all perfect squares)
sqrt(n) == SqrtSearch(n, 0, 2 * REGION)

\* exact value of a Python float quotient: the pair <<numerator, denominator>>
Rat(n, d) == <<n, d>>
RatAdd(a, b) == <<a[1] * b[2] + b[1] * a[2], a[2] * b[2]>>
RatEq(a, b) == a[1] * b[2] = b[1] * a[2]

Min2(a, b) == IF a < b THEN a ELSE b

\* ---------- section 5: tables -------------------------------------------
\* range(min(cid), max(cid)+2) appends max-min+2 entries: indices 0..max-min+1
TableLen(lo, hi) == hi - lo + 2
TableIdx(lo, hi) == 0 .. (TableLen(lo, hi) - 1)
CountIdx(dur) == 0 .. (SIM_TIME \div dur + 1)

\* the locals of smz_stats after sections 1-4 and an untouched file system
FirstState ==
  /\ smz_duration \in Durations
  /\ smz_radius \in Radii
  /\ min_cid = 0 /\ max_cid = 0
  /\ i = 0 /\ cur_t = 0 /\ v = 1 /\ cur_x = -1 /\ cur_y = -1
  /\ smz_grp = <<>> /\ k = <<>> /\ d_bar = <<>> /\ anon_duration = <<>>
  /\ anon_begin = <<>> /\ vehx = <<>> /\ vehy = <<>>
  /\ veh_begin_x = <<>> /\ veh_begin_y = <<>>
  /\ veh_end_x = <<>> /\ veh_end_y = <<>>
  /\ smz_entry_time = <<>> /\ smz_exit_time = <<>>
  /\ region_exit_time = <<>> /\ veh_exit_flag = <<>>
  /\ smz_total = 0 /\ smz_count = <<>>
  /\ d_sum = Rat(0, 1) /\ d_count = 0
  /\ sta = <<>> /\ k_sum = 0 /\ a_sum = 0
  /\ k_sum_indiv = 0 /\ d_sum_indiv = Rat(0, 1) /\ a_sum_indiv = 0
  /\ counter = 4 /\ counter_indiv = 0 /\ count_total = 0
  /\ summary = <<>>
  /\ run = 1
  /\ ln = 1 /\ wd = 1
  /\ times = <<>> /\ cid = <<>> /\ curx = <<>> /\ cury = <<>>
  /\ finx = <<>> /\ finy = <<>> /\ elapsed = <<>>
  /\ ti = 0 /\ tt = 0 /\ gen_out = <<>>

\* the trace is not kept: its samples are supplied one by one to Sample
Init ==
  /\ pc = "init"
  /\ infile = <<>> /\ mmts = <<>>
  /\ FirstState

\* min(cid) of an empty trace raises ValueError at line 194
EmptyTrace ==
  /\ pc = "init"
  /\ pc' = "crashed"
  /\ UNCHANGED <<parmVars, sampleVars, v, vehVars, grpVars, d_sum, d_count, aggVars>>
  /\ UNCHANGED outerVars

\* lines 194-220 for a trace whose smallest id is lo and largest id is hi
InitTables(lo, hi) ==
  /\ pc = "init"
  /\ lo <= hi
  /\ pc' = "sim"
  /\ min_cid' = lo /\ max_cid' = hi
  /\ smz_grp' = [ix \in TableIdx(lo, hi) |-> -1]
  /\ k' = [ix \in TableIdx(lo, hi) |-> -1]
  /\ d_bar' = [ix \in TableIdx(lo, hi) |-> Rat(0, 1)]
  /\ anon_duration' = [ix \in TableIdx(lo, hi) |-> 0]
  /\ anon_begin' = [ix \in TableIdx(lo, hi) |-> -1]
  /\ vehx' = [ix \in TableIdx(lo, hi) |-> -1]
  /\ vehy' = [ix \in TableIdx(lo, hi) |-> -1]
  /\ veh_begin_x' = [ix \in TableIdx(lo, hi) |-> -1]
  /\ veh_begin_y' = [ix \in TableIdx(lo, hi) |-> -1]
  /\ veh_end_x' = [ix \in TableIdx(lo, hi) |-> -1]
  /\ veh_end_y' = [ix \in TableIdx(lo, hi) |-> -1]
  /\ smz_entry_time' = [ix \in TableIdx(lo, hi) |-> -1]
  /\ smz_exit_time' = [ix \in TableIdx(lo, hi) |-> -1]
  /\ region_exit_time' = [ix \in TableIdx(lo, hi) |-> -1]
  /\ veh_exit_flag' = [ix \in TableIdx(lo, hi) |-> 0]
  /\ smz_total' = 0
  /\ smz_count' = [g \in CountIdx(smz_duration) |-> 0]
  /\ UNCHANGED <<smz_duration, smz_radius, sampleVars, v, d_sum, d_count, aggVars>>
  /\ UNCHANGED outerVars

\* ---------- section 6: one trace sample ---------------------------------
\* line 247: smz_radius > math.sqrt((curx - smz_x)**2 + (cury - smz_y)**2)
InZone(x, y) ==
  smz_radius > sqrt((x - smz_x) * (x - smz_x) + (y - smz_y) * (y - smz_y))

\* Entering without the "no smz_grp assigned" test
Entering_Reassign(vv, x, y) == InZone(x, y)

\* lines 247-248: within range of (smz_x, smz_y) and no smz_grp assigned
Entering(vv, x, y) == InZone(x, y) /\ smz_grp[vv] < 0

\* lines 269-272: within edge_threshold of an edge of the region
AtEdge(x, y) ==
  \/ x < 0 + edge_threshold
  \/ x > REGION - edge_threshold
  \/ y < 0 + edge_threshold
  \/ y > REGION - edge_threshold

\* AssignedGuard that lets an unassigned vehicle through
AssignedGuard_Dropped(grp, vv) == TRUE

\* line 276, first conjunct: v was assigned a group (grp is smz_grp after
\* the entry test)
AssignedGuard(grp, vv) == grp[vv] > -1

\* NotExitedGuard that ignores veh_exit_flag
NotExitedGuard_Dropped(vv) == TRUE

\* line 276, second conjunct: v has not exited already
NotExitedGuard(vv) == veh_exit_flag[vv] = 0

\* GrpAtExitTest with the exit test ahead of the entry test
GrpAtExitTest_BeforeEntry(before, after) == before

\* lines 247-249 precede line 276: the exit test reads smz_grp as the entry
\* test of the same sample left it
GrpAtExitTest(before, after) == after

\* line 276
ExitGuard(grp, vv) == AssignedGuard(grp, vv) /\ NotExitedGuard(vv)

\* Python list indexing: a negative index counts from the end of the list
PyIx(tab, ix) == IF ix < 0 THEN ix + Cardinality(DOMAIN tab) ELSE ix
At(tab, ix) == tab[PyIx(tab, ix)]

\* lines 293-294: the peer test of the scan for table entry j
Selected(j, me, g) ==
  smz_grp[j] > -1 /\ vehx[j] > -1 /\ me # j /\ smz_grp[j] = g

\* lines 297-298
Dist(x, y, j) ==
  sqrt((x - vehx[j]) * (x - vehx[j]) + (y - vehy[j]) * (y - vehy[j]))

\* lines 287-299: <<d_sum, d_count>> of the loop over j = first..last
RECURSIVE Scan(_, _, _, _, _, _)
Scan(j, last, me, g, x, y) ==
  IF j > last THEN <<0, 0>>
  ELSE LET r == Scan(j + 1, last, me, g, x, y)
       IN IF Selected(j, me, g)
          THEN <<r[1] + Dist(x, y, j), r[2] + 1>>
          ELSE r

\* CountUp that forgets the increment
CountUp_Skipped(cnt, g) == cnt

\* line 250: smz_count[cur_smz_grp] += 1
CountUp(cnt, g) == [cnt EXCEPT ![g] = @ + 1]

\* CountDown that forgets the decrement
CountDown_Skipped(cnt, g) == cnt

\* line 283: smz_count[smz_grp[v]] -= 1
CountDown(cnt, g) == [cnt EXCEPT ![PyIx(cnt, g)] = @ - 1]

\* DBar as the mean over the peers only
DBar_OverPeers(dsum, dcount) == Rat(dsum, dcount)

\* line 302 (overwrites the value of line 301): float(d_sum) / (d_count + 1)
DBar(dsum, dcount) == Rat(dsum, dcount + 1)

\* AnonDuration without the else branch of line 312
AnonDuration_NoClamp(ret, sxt) == ret - sxt

\* lines 310-313
AnonDuration(ret, sxt) == IF ret > sxt THEN ret - sxt ELSE 0

\* Deactivate that clears the whole table
Deactivate_All(tab, vv) == [j \in DOMAIN tab |-> -2]

\* lines 317-318: vehx[v] = -2, vehy[v] = -2
Deactivate(tab, vv) == [tab EXCEPT ![vv] = -2]

\* trace order (sort -k1n -k2n): time, then vehicle number, non-decreasing
InOrder(t, vv) == i = 0 \/ t > cur_t \/ (t = cur_t /\ vv >= v)

\* line 236 with an id beyond the tables: IndexError
SampleIndexError(t, vv, x, y) ==
  /\ pc = "sim"
  /\ vv \in min_cid..max_cid
  /\ InOrder(t, vv)
  /\ vv >= TableLen(min_cid, max_cid)
  /\ pc' = "crashed"
  /\ i < MaxSamples
  /\ i' = i + 1 /\ cur_t' = t /\ v' = vv /\ cur_x' = x /\ cur_y' = y
  /\ UNCHANGED <<parmVars, vehVars, grpVars, d_sum, d_count, aggVars>>
  /\ UNCHANGED outerVars

\* lines 233-318: one iteration of the loop over the trace
Sample(t, vv, x, y) ==
  /\ pc = "sim"
  /\ vv \in min_cid..max_cid
  /\ InOrder(t, vv)
  /\ vv < TableLen(min_cid, max_cid)
  /\ i < MaxSamples
  /\ i' = i + 1 /\ cur_t' = t /\ v' = vv /\ cur_x' = x /\ cur_y' = y
  /\ LET cur_smz_grp == t \div smz_duration
         enter == Entering(vv, x, y)
         grp1 == IF enter THEN [smz_grp EXCEPT ![vv] = cur_smz_grp] ELSE smz_grp
         cnt1 == IF enter THEN CountUp(smz_count, cur_smz_grp) ELSE smz_count
         exiting == AtEdge(x, y) /\ ExitGuard(GrpAtExitTest(smz_grp, grp1), vv)
         g == grp1[vv]
         k_raw == At(cnt1, g)
         lastIdx == TableLen(min_cid, max_cid) - 1
         scanError == max_cid > lastIdx
         scan == Scan(min_cid, Min2(max_cid, lastIdx), vv, g, x, y)
         overwrite == scan[1] > 0 /\ k_raw > 0
     IN
     \* lines 238-242 (veh_begin_x is -1 here, so the test at 238 fails)
     /\ veh_begin_x' = IF veh_begin_x[vv] # -1
                       THEN [veh_begin_x EXCEPT ![vv] = x] ELSE veh_begin_x
     /\ veh_begin_y' = IF veh_begin_x[vv] # -1
                       THEN [veh_begin_y EXCEPT ![vv] = y] ELSE veh_begin_y
     /\ veh_end_x' = [veh_end_x EXCEPT ![vv] = x]
     /\ veh_end_y' = [veh_end_y EXCEPT ![vv] = y]
     \* lines 247-254
     /\ smz_grp' = grp1
     /\ anon_begin' = IF enter THEN [anon_begin EXCEPT ![vv] = t] ELSE anon_begin
     /\ smz_total' = IF enter THEN smz_total + 1 ELSE smz_total
     /\ smz_entry_time' = IF enter THEN [smz_entry_time EXCEPT ![vv] = t]
                                   ELSE smz_entry_time
     /\ smz_exit_time' = IF enter
          THEN [smz_exit_time EXCEPT ![vv] = (cur_smz_grp + 1) * smz_duration]
          ELSE smz_exit_time
     \* lines 269-318
     /\ IF ~exiting
        THEN /\ vehx' = [vehx EXCEPT ![vv] = x]
             /\ vehy' = [vehy EXCEPT ![vv] = y]
             /\ smz_count' = cnt1
             /\ pc' = "sim"
             /\ UNCHANGED <<veh_exit_flag, region_exit_time, k, d_bar,
                            anon_duration, d_sum, d_count>>
        ELSE /\ veh_exit_flag' = [veh_exit_flag EXCEPT ![vv] = 1]
             /\ region_exit_time' = [region_exit_time EXCEPT ![vv] = t]
             /\ smz_count' = CountDown(cnt1, g)
             /\ d_sum' = Rat(scan[1], 1)
             /\ d_count' = scan[2]
             /\ IF scanError
                \* smz_grp[j] at line 293 with j beyond the tables: IndexError
                THEN /\ pc' = "crashed"
                     /\ k' = [k EXCEPT ![vv] = k_raw]
                     /\ vehx' = [vehx EXCEPT ![vv] = x]
                     /\ vehy' = [vehy EXCEPT ![vv] = y]
                     /\ UNCHANGED <<d_bar, anon_duration>>
                ELSE /\ pc' = "sim"
                     /\ k' = [k EXCEPT ![vv] =
                                IF overwrite THEN scan[2] + 1 ELSE k_raw]
                     /\ d_bar' = IF overwrite
                                 THEN [d_bar EXCEPT ![vv] = DBar(scan[1], scan[2])]
                                 ELSE d_bar
                     /\ anon_duration' = [anon_duration EXCEPT ![vv] =
                          AnonDuration(t, smz_exit_time'[vv])]
                     /\ vehx' = Deactivate(vehx, vv)
                     /\ vehy' = Deactivate(vehy, vv)
  /\ UNCHANGED <<parmVars, aggVars>>
  /\ UNCHANGED outerVars

\* ---------- section 7: the .sta file and the summary --------------------
\* an id has a sample in the trace iff its veh_end_x was written (line 241)
Observed(id) == id \in DOMAIN veh_end_x /\ veh_end_x[id] # -1

\* lines 324-334: the trace is exhausted; min_cid and max_cid are its
\* smallest and largest id, so both have been observed
EndOfTrace ==
  /\ pc = "sim"
  /\ Observed(min_cid) /\ Observed(max_cid)
  /\ pc' = "out"
  /\ k_sum' = 0 /\ d_sum' = Rat(0, 1) /\ a_sum' = 0
  /\ k_sum_indiv' = 0 /\ d_sum_indiv' = Rat(0, 1) /\ a_sum_indiv' = 0
  /\ counter' = 0 /\ counter_indiv' = 0
  /\ sta' = <<>>
  /\ v' = min_cid
  /\ UNCHANGED <<parmVars, sampleVars, vehVars, grpVars, d_count,
                 count_total, summary>>
  /\ UNCHANGED outerVars

\* FlooredK without the floor
FlooredK_NoFloor(kv) == kv

\* lines 337-338
FlooredK(kv) == IF kv < 1 THEN 1 ELSE kv

\* lines 335-356: one iteration of the loop over v = min(cid)..max(cid)
WriteRecord ==
  /\ pc = "out"
  /\ v <= max_cid
  /\ LET kv == FlooredK(k[v])
     IN /\ k' = [k EXCEPT ![v] = kv]
        /\ sta' = Append(sta, [id |-> v, k |-> kv, d_bar |-> d_bar[v],
                               anon_duration |-> anon_duration[v],
                               smz_exit_time |-> smz_exit_time[v],
                               region_exit_time |-> region_exit_time[v],
                               veh_end_x |-> veh_end_x[v],
                               veh_end_y |-> veh_end_y[v],
                               smz_grp |-> smz_grp[v]])
        /\ k_sum' = k_sum + kv
        /\ d_sum' = RatAdd(d_sum, d_bar[v])
        /\ a_sum' = a_sum + anon_duration[v]
        /\ k_sum_indiv' = IF kv > 1 THEN k_sum_indiv + kv ELSE k_sum_indiv
        /\ d_sum_indiv' = IF kv > 1 THEN RatAdd(d_sum_indiv, d_bar[v])
                                    ELSE d_sum_indiv
        /\ a_sum_indiv' = IF kv > 1 THEN a_sum_indiv + anon_duration[v]
                                    ELSE a_sum_indiv
        /\ counter_indiv' = IF kv > 1 THEN counter_indiv + 1 ELSE counter_indiv
  /\ counter' = counter + 1
  /\ v' = v + 1
  /\ pc' = "out"
  /\ UNCHANGED <<parmVars, sampleVars, smz_grp, d_bar, anon_duration, anon_begin,
                 vehx, vehy, veh_begin_x, veh_begin_y, veh_end_x, veh_end_y,
                 smz_entry_time, smz_exit_time, region_exit_time, veh_exit_flag,
                 grpVars, d_count, count_total, summary>>
  /\ UNCHANGED outerVars

\* lines 361-364: the vehicles still counted in some smz_count[g]
RECURSIVE CountTotal(_)
CountTotal(g) ==
  IF g \notin DOMAIN smz_count THEN 0
  ELSE (IF smz_count[g] > 0 THEN smz_count[g] ELSE 0) + CountTotal(g + 1)

\* float(a) / b for an exact a = <<n, d>>
RatDiv(a, b) == <<a[1], a[2] * b>>

\* lines 357-375: close the file, count the residue, print the summary;
\* a zero counter_indiv raises ZeroDivisionError inside the print statement
Summary ==
  /\ pc = "out"
  /\ v > max_cid
  /\ counter_indiv' = smz_total
  /\ count_total' = CountTotal(0)
  /\ IF counter = 0 \/ smz_total = 0
     THEN /\ pc' = "crashed"
          /\ UNCHANGED summary
     ELSE /\ pc' = "done"
          /\ summary' = <<Rat(k_sum, counter), RatDiv(d_sum, counter),
                          Rat(a_sum, counter), counter,
                          Rat(k_sum_indiv, smz_total),
                          RatDiv(d_sum_indiv, smz_total),
                          Rat(a_sum_indiv, smz_total),
                          smz_total, CountTotal(0)>>
  /\ UNCHANGED <<parmVars, sampleVars, v, vehVars, grpVars, d_sum, d_count,
                 sta, k_sum, a_sum, k_sum_indiv, d_sum_indiv, a_sum_indiv, counter>>
  /\ UNCHANGED outerVars

Next ==
  \/ EmptyTrace
  \/ \E lo, hi \in Ids : InitTables(lo, hi)
  \/ \E t \in Times, vv \in Ids, p \in Points : SampleIndexError(t, vv, p[1], p[2])
  \/ \E t \in Times, vv \in Ids, p \in Points : Sample(t, vv, p[1], p[2])
  \/ EndOfTrace
  \/ WriteRecord
  \/ Summary

Spec == Init /\ [][Next]_vars

\* ---------- section 0: the sweep over the parameter combinations --------
\* lines 397-419: the next call of smz_stats; its locals are fresh, the file
\* calc_kda_smz.sta (line 114) and the printed output stay as they are
NextRun ==
  /\ pc = "done"
  /\ run < MaxRuns
  /\ run' = run + 1
  /\ pc' = "init"
  /\ smz_duration' \in Durations
  /\ smz_radius' \in Radii
  /\ min_cid' = 0 /\ max_cid' = 0
  /\ i' = 0 /\ cur_t' = 0 /\ v' = 1 /\ cur_x' = -1 /\ cur_y' = -1
  /\ smz_grp' = <<>> /\ k' = <<>> /\ d_bar' = <<>> /\ anon_duration' = <<>>
  /\ anon_begin' = <<>> /\ vehx' = <<>> /\ vehy' = <<>>
  /\ veh_begin_x' = <<>> /\ veh_begin_y' = <<>>
  /\ veh_end_x' = <<>> /\ veh_end_y' = <<>>
  /\ smz_entry_time' = <<>> /\ smz_exit_time' = <<>>
  /\ region_exit_time' = <<>> /\ veh_exit_flag' = <<>>
  /\ smz_total' = 0 /\ smz_count' = <<>>
  /\ d_sum' = Rat(0, 1) /\ d_count' = 0
  /\ k_sum' = 0 /\ a_sum' = 0
  /\ k_sum_indiv' = 0 /\ d_sum_indiv' = Rat(0, 1) /\ a_sum_indiv' = 0
  /\ counter' = 4 /\ counter_indiv' = 0 /\ count_total' = 0
  /\ UNCHANGED <<sta, summary, loadVars, genVars>>

\* the sweep on traces of at most SweepSamples samples; an uncaught
\* exception in one call ends the whole program
SweepIndexError(t, vv, x, y) == i < SweepSamples /\ SampleIndexError(t, vv, x, y)
SweepSample(t, vv, x, y) == i < SweepSamples /\ Sample(t, vv, x, y)

SweepNext ==
  \/ EmptyTrace
  \/ \E lo, hi \in Ids : InitTables(lo, hi)
  \/ \E t \in Times, vv \in Ids, p \in Points : SweepIndexError(t, vv, p[1], p[2])
  \/ \E t \in Times, vv \in Ids, p \in Points : SweepSample(t, vv, p[1], p[2])
  \/ EndOfTrace
  \/ WriteRecord
  \/ Summary
  \/ NextRun

SweepSpec == Init /\ [][SweepNext]_vars

\* ---------- sections 2-4: reading the input file -------------------------
\* a word of the file: a number, or a word that int() and float() reject
Tok(n) == <<"int", n>>
BadTok == <<"bad", 0>>
IsNumber(word) == word[1] = "int"

\* the files tried: at most MaxRecords samples in trace order, cut into
\* lines of LineLens words, with at most one word replaced by a bad one
LoadRecords == {<<0, 1, 5, 100>>, <<0, 1, 100, 100>>,
                <<0, 2, 5, 100>>, <<0, 2, 100, 100>>}
LineLens == 3..5

RECURSIVE Streams(_)
Streams(n) ==
  IF n = 0 THEN {<<>>}
  ELSE LET shorter == Streams(n - 1)
       IN shorter \cup
          {Append(rs, r) : rs \in {q \in shorter : Len(q) = n - 1},
                           r \in LoadRecords}

Sorted(rs) ==
  \A n \in 1..(Len(rs) - 1) :
    \/ rs[n][1] < rs[n + 1][1]
    \/ (rs[n][1] = rs[n + 1][1] /\ rs[n][2] <= rs[n + 1][2])

Flat(rs) == [n \in 1..(4 * Len(rs)) |-> Tok(rs[((n - 1) \div 4) + 1][((n - 1) % 4) + 1])]

Spoil(toks, pos) == IF pos = 0 THEN toks ELSE [toks EXCEPT ![pos] = BadTok]

RECURSIVE Shapes(_)
Shapes(n) ==
  IF n = 0 THEN {<<>>}
  ELSE UNION {{<<l>> \o sh : sh \in Shapes(n - l)} : l \in {m \in LineLens : m <= n}}

RECURSIVE Cut(_, _)
Cut(toks, sh) ==
  IF sh = <<>> THEN <<>>
  ELSE <<SubSeq(toks, 1, sh[1])>> \o Cut(SubSeq(toks, sh[1] + 1, Len(toks)), Tail(sh))

SortedStreams == {rs \in Streams(MaxRecords) : Sorted(rs)}

Files ==
  UNION {{Cut(Spoil(Flat(rs), pos), sh) :
            pos \in 0..(4 * Len(rs)), sh \in Shapes(4 * Len(rs))} :
         rs \in SortedStreams}

\* lines 138-142: the file is open, counter = 4
LoadInit ==
  /\ pc = "load"
  /\ infile \in Files
  /\ mmts = <<>>
  /\ FirstState

\* line 149-151
NextCounter(c) == IF c + 1 = 5 THEN 1 ELSE c + 1

\* lines 148-159 for a word that parses
ReadWord ==
  /\ pc = "load"
  /\ ln <= Len(infile) /\ wd <= Len(infile[ln])
  /\ LET word == infile[ln][wd]
         c == NextCounter(counter)
     IN /\ IsNumber(word)
        /\ counter' = c
        /\ times' = IF c = 1 THEN Append(times, word[2]) ELSE times
        /\ cid' = IF c = 2 THEN Append(cid, word[2]) ELSE cid
        /\ curx' = IF c = 3 THEN Append(curx, word[2]) ELSE curx
        /\ cury' = IF c = 4 THEN Append(cury, word[2]) ELSE cury
  /\ wd' = wd + 1
  /\ UNCHANGED <<pc, parmVars, i, cur_t, cur_x, cur_y, v, vehVars, grpVars,
                 d_sum, d_count, sta, k_sum, a_sum, k_sum_indiv, d_sum_indiv,
                 a_sum_indiv, counter_indiv, count_total, summary,
                 run, infile, ln, genVars>>

\* lines 148-159 for a word that int() or float() rejects: ValueError
ParseError ==
  /\ pc = "load"
  /\ ln <= Len(infile) /\ wd <= Len(infile[ln])
  /\ ~IsNumber(infile[ln][wd])
  /\ counter' = NextCounter(counter)
  /\ pc' = "crashed"
  /\ UNCHANGED <<parmVars, sampleVars, v, vehVars, grpVars,
                 d_sum, d_count, sta, k_sum, a_sum, k_sum_indiv, d_sum_indiv,
                 a_sum_indiv, counter_indiv, count_total, summary, outerVars>>

\* line 143: the words of the line are used up, the next line is read
NextLine ==
  /\ pc = "load"
  /\ ln <= Len(infile) /\ wd > Len(infile[ln])
  /\ ln' = ln + 1 /\ wd' = 1
  /\ UNCHANGED <<pc, parmVars, sampleVars, v, vehVars, grpVars,
                 d_sum, d_count, aggVars, run, infile, times, cid, curx, cury,
                 genVars>>

\* line 161: end of file
CloseFile ==
  /\ pc = "load"
  /\ ln > Len(infile)
  /\ pc' = "init"
  /\ UNCHANGED <<parmVars, sampleVars, v, vehVars, grpVars,
                 d_sum, d_count, aggVars, outerVars>>

RECURSIVE SeqMin(_)
SeqMin(q) ==
  IF Len(q) = 1 THEN q[1]
  ELSE LET m == SeqMin(Tail(q)) IN IF q[1] < m THEN q[1] ELSE m

RECURSIVE SeqMax(_)
SeqMax(q) ==
  IF Len(q) = 1 THEN q[1]
  ELSE LET m == SeqMax(Tail(q)) IN IF q[1] > m THEN q[1] ELSE m

\* sections 5-7 on the arrays that were loaded
LoadedEmpty == cid = <<>> /\ EmptyTrace
LoadedInitTables == cid # <<>> /\ InitTables(SeqMin(cid), SeqMax(cid))
LoadedIndexError ==
  /\ i < Len(times)
  /\ SampleIndexError(times[i + 1], cid[i + 1], curx[i + 1], cury[i + 1])
LoadedSample ==
  /\ i < Len(times)
  /\ Sample(times[i + 1], cid[i + 1], curx[i + 1], cury[i + 1])
LoadedEndOfTrace == i = Len(times) /\ EndOfTrace

LoadNext ==
  \/ ReadWord
  \/ ParseError
  \/ NextLine
  \/ CloseFile
  \/ LoadedEmpty
  \/ LoadedInitTables
  \/ LoadedIndexError
  \/ LoadedSample
  \/ LoadedEndOfTrace
  \/ WriteRecord
  \/ Summary

LoadSpec == LoadInit /\ [][LoadNext]_vars

\* ---------- gen_traj.py --------------------------------------------------
\* a line of the GMSF/MMTS trace: time stamp, vehicle, start x y, end x y,
\* duration; the two stamps are floats, given here in halves of a second
MmtsLines ==
  {<<s2, c, 0, 30, 60, 90, e2>> : s2 \in {0, 3}, c \in {1, 2}, e2 \in {0, 2, 3}}

RECURSIVE MmtsFiles(_)
MmtsFiles(n) ==
  IF n = 0 THEN {<<>>}
  ELSE LET shorter == MmtsFiles(n - 1)
       IN shorter \cup
          {Append(f, l) : f \in {q \in shorter : Len(q) = n - 1}, l \in MmtsLines}

\* lines 85-92 and 104-111: round a stamp of s2 halves up to an integer
RoundUp(s2) ==
  IF s2 = 0 THEN 0
  ELSE IF s2 > 2 * (s2 \div 2) THEN (s2 \div 2) + 1 ELSE s2 \div 2

\* SamplesOf that counts range(elapsed[ti])
SamplesOf_OneLess(e) == e

\* line 134: range(elapsed[ti] + 1)
SamplesOf(e) == e + 1

\* lines 56-72: the trace file is open, nothing read yet
GenInit ==
  /\ pc = "gen_read"
  /\ mmts \in MmtsFiles(GenLines)
  /\ infile = <<>>
  /\ FirstState

\* lines 76-111: one line of the trace file
GenReadLine ==
  /\ pc = "gen_read"
  /\ ln <= Len(mmts)
  /\ LET l == mmts[ln]
     IN /\ times' = Append(times, RoundUp(l[1]))
        /\ cid' = Append(cid, l[2])
        /\ curx' = Append(curx, l[3])
        /\ cury' = Append(cury, l[4])
        /\ finx' = Append(finx, l[5])
        /\ finy' = Append(finy, l[6])
        /\ elapsed' = Append(elapsed, RoundUp(l[7]))
  /\ ln' = ln + 1
  /\ UNCHANGED <<pc, parmVars, i, cur_t, cur_x, cur_y, v, vehVars, grpVars,
                 d_sum, d_count, aggVars, run, infile, wd, mmts, ti, tt, gen_out>>

\* lines 113-122: end of the trace file, gen_traj.out is opened
GenCloseInput ==
  /\ pc = "gen_read"
  /\ ln > Len(mmts)
  /\ pc' = "gen_write"
  /\ ti' = 1 /\ tt' = 0
  /\ gen_out' = <<>>
  /\ UNCHANGED <<parmVars, sampleVars, v, vehVars, grpVars, d_sum, d_count,
                 aggVars, run, loadVars, mmts, finx, finy, elapsed>>

\* lines 124-127: elapsed time zero, abort = 1/0
GenAbort ==
  /\ pc = "gen_write"
  /\ ti <= Len(times)
  /\ elapsed[ti] = 0
  /\ pc' = "crashed"
  /\ UNCHANGED <<parmVars, sampleVars, v, vehVars, grpVars, d_sum, d_count,
                 aggVars, outerVars>>

\* lines 129-139: one sample of line ti (tt = 0 again when a line begins)
GenWrite ==
  /\ pc = "gen_write"
  /\ ti <= Len(times)
  /\ elapsed[ti] # 0
  /\ tt < SamplesOf(elapsed[ti])
  /\ LET den == elapsed[ti] + 1
         x == Rat(curx[ti] * den + tt * (finx[ti] - curx[ti]), den)
         y == Rat(cury[ti] * den + tt * (finy[ti] - cury[ti]), den)
     IN gen_out' = Append(gen_out, <<times[ti] + tt, cid[ti], x, y>>)
  /\ tt' = tt + 1
  /\ UNCHANGED <<pc, parmVars, sampleVars, v, vehVars, grpVars, d_sum, d_count,
                 aggVars, run, loadVars, mmts, finx, finy, elapsed, ti>>

\* lines 122 and 131-134: the inner loop is over, the next line begins
GenNextLine ==
  /\ pc = "gen_write"
  /\ ti <= Len(times)
  /\ elapsed[ti] # 0
  /\ tt >= SamplesOf(elapsed[ti])
  /\ ti' = ti + 1 /\ tt' = 0
  /\ UNCHANGED <<pc, parmVars, sampleVars, v, vehVars, grpVars, d_sum, d_count,
                 aggVars, run, loadVars, mmts, finx, finy, elapsed, gen_out>>

\* line 141
GenClose ==
  /\ pc = "gen_write"
  /\ ti > Len(times)
  /\ pc' = "gen_done"
  /\ UNCHANGED <<parmVars, sampleVars, v, vehVars, grpVars, d_sum, d_count,
                 aggVars, outerVars>>

GenNext ==
  \/ GenReadLine
  \/ GenCloseInput
  \/ GenAbort
  \/ GenWrite
  \/ GenNextLine
  \/ GenClose

GenSpec == GenInit /\ [][GenNext]_vars

\* ======================= properties ======================================
VehIds == IF pc = "init" THEN {} ELSE (min_cid..max_cid) \cap DOMAIN smz_grp

\* the step consumes one trace sample whose id addresses the tables
SampleStep == pc = "sim" /\ i' = i + 1 /\ v' \in DOMAIN smz_grp

\* the step is the exit event of vehicle j, run to its end (lines 277-318)
ExitEvent(j) ==
  SampleStep /\ v' = j /\ veh_exit_flag[j] = 0 /\ veh_exit_flag'[j] = 1
  /\ pc' = "sim"

\* j's exit computation has run to its end in the current state
ExitCompleted(j) == veh_exit_flag[j] = 1 /\ ~(pc = "crashed" /\ v = j)

WithinRadius(x, y) ==
  (x - smz_x) * (x - smz_x) + (y - smz_y) * (y - smz_y) < smz_radius * smz_radius

NearEdge(x, y) ==
  x < edge_threshold \/ x > REGION - edge_threshold
  \/ y < edge_threshold \/ y > REGION - edge_threshold

\* C1 - one-shot assignment: a sample of a vehicle without a group sets its
\* group to floor(t / smz_duration) iff the sample is strictly within the
\* radius; once a vehicle has a group, no step changes its group, its entry
\* time or its scheduled group exit time, and its own samples no longer
\* increment smz_total or any group counter.
C1_Step ==
  /\ SampleStep =>
       /\ (smz_grp[v'] < 0 /\ WithinRadius(cur_x', cur_y'))
            => /\ smz_grp'[v'] = cur_t' \div smz_duration
               /\ smz_entry_time'[v'] = cur_t'
       /\ (smz_grp[v'] < 0 /\ ~WithinRadius(cur_x', cur_y'))
            => smz_grp'[v'] = -1
       /\ smz_grp[v'] >= 0
            => /\ smz_total' = smz_total
               /\ \A g \in DOMAIN smz_count : smz_count'[g] <= smz_count[g]
  /\ \A j \in VehIds :
       smz_grp[j] >= 0 => /\ smz_grp'[j] = smz_grp[j]
                          /\ smz_entry_time'[j] = smz_entry_time[j]
                          /\ smz_exit_time'[j] = smz_exit_time[j]
C1_OneShotAssignment == [][C1_Step]_vars

\* a vehicle that got its group at an earlier tick has just had another
\* sample within the radius, in a later time bucket
C1_Witness ==
  /\ pc = "sim" /\ i > 0 /\ v \in VehIds
  /\ smz_grp[v] >= 0 /\ smz_entry_time[v] < cur_t
  /\ WithinRadius(cur_x, cur_y)
  /\ smz_grp[v] # cur_t \div smz_duration

\* C2 - exit exactly once: once veh_exit_flag of a vehicle is set it stays
\* set and no step changes the vehicle's k, d_bar, anon_duration or
\* region_exit_time; a sample of an exited vehicle changes no group counter.
C2_Step ==
  /\ \A j \in VehIds :
       veh_exit_flag[j] = 1 =>
         /\ veh_exit_flag'[j] = 1
         /\ k'[j] = k[j]
         /\ d_bar'[j] = d_bar[j]
         /\ anon_duration'[j] = anon_duration[j]
         /\ region_exit_time'[j] = region_exit_time[j]
  /\ (SampleStep /\ veh_exit_flag[v'] = 1) => smz_count' = smz_count
C2_ExitOnce == [][C2_Step]_vars

\* an exited vehicle has just had a further sample near an edge
C2_Witness ==
  /\ pc = "sim" /\ i > 0 /\ v \in VehIds
  /\ veh_exit_flag[v] = 1 /\ region_exit_time[v] < cur_t
  /\ NearEdge(cur_x, cur_y)

\* the peers of j as the specification describes them: another vehicle with
\* a group assignment, an active position and the group of j
Peers(j, grp) ==
  {p \in VehIds \ {j} : grp[p] > -1 /\ vehx[p] > -1 /\ grp[p] = grp[j]}

\* C3 - at every exit event of a vehicle the stored k is the number of
\* peers selected by the scan plus one.
C3_Step ==
  \A j \in VehIds :
    ExitEvent(j) => k'[j] = Cardinality(Peers(j, smz_grp')) + 1
C3_KIsPeerCountPlusOne == [][C3_Step]_vars

\* C4 - two vehicles that alone share a group, entered at an earlier tick
\* and exit at the same tick both report k = 2 and the same d_bar; when
\* their positions at that tick are 10 apart, d_bar is 10.
C4_SameTickExit ==
  \A a, b \in VehIds :
    ( /\ a # b
      /\ ExitCompleted(a) /\ ExitCompleted(b)
      /\ smz_grp[a] = smz_grp[b]
      /\ smz_entry_time[a] < region_exit_time[a]
      /\ smz_entry_time[b] < region_exit_time[b]
      /\ region_exit_time[a] = region_exit_time[b]
      /\ \A c \in VehIds \ {a, b} : smz_grp[c] # smz_grp[a] )
    => /\ k[a] = 2 /\ k[b] = 2
       /\ RatEq(d_bar[a], d_bar[b])
       /\ (veh_end_x[a] - veh_end_x[b] \in {10, -10} /\ veh_end_y[a] = veh_end_y[b]
           /\ cur_t = region_exit_time[a] /\ pc = "sim")
          => RatEq(d_bar[a], Rat(10, 1))

\* C5 - an exited vehicle is never selected by a later peer scan: at every
\* exit event the scan counts exactly the other vehicles of the group that
\* have not exited.
C5_Step ==
  \A j \in VehIds :
    ExitEvent(j) =>
      d_count' = Cardinality({p \in VehIds \ {j} :
                    smz_grp[p] > -1 /\ smz_grp[p] = smz_grp'[j]
                    /\ veh_exit_flag[p] = 0})
C5_ExitedNeverSelected == [][C5_Step]_vars

\* C6 - snapshot consistency: when p gets its sample of tick t after the
\* exit of j at tick t was processed, and p was selected by j's scan, the
\* position the scan used for p (still in vehx[p], vehy[p]) is p's position
\* of tick t.
C6_Step ==
  \A j \in VehIds :
    ( /\ SampleStep
      /\ v' # j /\ v # v'
      /\ ExitCompleted(j) /\ region_exit_time[j] = cur_t'
      /\ v' \in Peers(j, smz_grp) )
    => (vehx[v'] = cur_x' /\ vehy[v'] = cur_y')
C6_SnapshotConsistency == [][C6_Step]_vars

\* C7 - anon_duration is never negative, and after an exit event it is
\* max(0, region_exit_time - smz_exit_time).
C7_AnonDuration ==
  \A j \in VehIds :
    /\ anon_duration[j] >= 0
    /\ ExitCompleted(j) =>
         /\ region_exit_time[j] <= smz_exit_time[j] => anon_duration[j] = 0
         /\ region_exit_time[j] > smz_exit_time[j]
              => /\ anon_duration[j] = region_exit_time[j] - smz_exit_time[j]
                 /\ anon_duration[j] > 0

\* one vehicle left the region before the end of its bucket, another after
C7_Witness ==
  \E a, b \in VehIds :
    /\ ExitCompleted(a) /\ region_exit_time[a] < smz_exit_time[a]
    /\ ExitCompleted(b) /\ region_exit_time[b] > smz_exit_time[b]
    /\ anon_duration[b] > 0

RECURSIVE SumStaK(_)
SumStaK(n) == IF n = 0 THEN 0 ELSE sta[n].k + SumStaK(n - 1)

\* C8 - every k written to the .sta file and added to k_sum is at least 1.
C8_KFloor ==
  pc \in {"out", "done", "crashed"} =>
    /\ \A n \in 1..Len(sta) : sta[n].k >= 1 /\ k[sta[n].id] = sta[n].k
    /\ Len(sta) > 0 => k_sum = SumStaK(Len(sta))

\* a finished run that reported a vehicle never assigned, one assigned but
\* never exited, and one exited
C8_Witness ==
  /\ pc = "done"
  /\ \E a, b, c \in 1..Len(sta) :
       /\ sta[a].smz_grp = -1
       /\ sta[b].smz_grp > -1 /\ sta[b].region_exit_time = -1
       /\ sta[c].region_exit_time > -1

\* C9 - a vehicle without a group, or with a group but no processed exit,
\* is reported with k = 1, d_bar = 0 and anon_duration = 0.
C9_Defaults ==
  pc \in {"out", "done", "crashed"} =>
    \A n \in 1..Len(sta) :
      (sta[n].smz_grp = -1 \/ veh_exit_flag[sta[n].id] = 0)
        => /\ sta[n].k = 1
           /\ RatEq(sta[n].d_bar, Rat(0, 1))
           /\ sta[n].anon_duration = 0

\* reported with the defaults: a vehicle that never got a group and whose
\* last sample is near an edge, and a vehicle with a group that never exited,
\* next to a vehicle with computed statistics
C9_Witness ==
  /\ pc = "done"
  /\ \E a, b, c \in 1..Len(sta) :
       /\ sta[a].smz_grp = -1 /\ NearEdge(sta[a].veh_end_x, sta[a].veh_end_y)
       /\ sta[b].smz_grp > -1 /\ veh_exit_flag[sta[b].id] = 0
       /\ veh_exit_flag[sta[c].id] = 1

\* C10 - at the end of the run the number of vehicles reported with k > 1
\* equals smz_total.
C10_AnonymizedCount ==
  (pc \in {"done", "crashed"} /\ Len(sta) > 0 /\ v > max_cid) =>
    Cardinality({n \in 1..Len(sta) : sta[n].k > 1}) = smz_total

RECURSIVE SumCount(_)
SumCount(g) ==
  IF g \notin DOMAIN smz_count THEN 0 ELSE smz_count[g] + SumCount(g + 1)

\* C11 - cross-check: smz_total equals the sum of all live counters plus the
\* number of vehicles whose exit flag is set, and equals the number of
\* vehicles with a group assignment.
C11_CrossCheck ==
  pc # "init" =>
    /\ smz_total = SumCount(0)
                   + Cardinality({j \in VehIds : veh_exit_flag[j] = 1})
    /\ smz_total = Cardinality({j \in VehIds : smz_grp[j] > -1})

\* two vehicles were assigned, one of them has exited, the other is live
C11_Witness ==
  /\ pc = "sim" /\ smz_total = 2
  /\ \E a, b \in VehIds :
       /\ veh_exit_flag[a] = 1
       /\ smz_grp[b] > -1 /\ veh_exit_flag[b] = 0 /\ smz_count[smz_grp[b]] > 0

\* C12 - a zero aggregation denominator (empty trace, or no vehicle ever
\* entered the mix zone) does not end the run with an uncaught error.
C12_NoCrashOnZeroDenominator ==
  (min_cid = 0 \/ (Len(sta) > 0 /\ v > max_cid /\ smz_total = 0))
    => pc # "crashed"

\* the distance of two positions, found by search instead of math.sqrt
PlainDist(x1, y1, x2, y2) ==
  LET dx == IF x1 > x2 THEN x1 - x2 ELSE x2 - x1
      dy == IF y1 > y2 THEN y1 - y2 ELSE y2 - y1
  IN CHOOSE d \in 0..(dx + dy) : d * d = dx * dx + dy * dy

RECURSIVE PeerDistSum(_, _, _)
PeerDistSum(S, x, y) ==
  IF S = {} THEN 0
  ELSE LET p == CHOOSE q \in S : TRUE
       IN PlainDist(x, y, vehx[p], vehy[p]) + PeerDistSum(S \ {p}, x, y)

\* C16 - at every exit event of a vehicle its d_bar is the sum of the
\* distances from its sample position to the positions of the peers selected
\* by the scan, divided by their number plus one; d_bar is 0 exactly when
\* that sum is 0.
C16_Step ==
  \A j \in VehIds :
    ExitEvent(j) =>
      LET S == Peers(j, smz_grp')
          dist_sum == PeerDistSum(S, cur_x', cur_y')
      IN /\ RatEq(d_bar'[j], Rat(dist_sum, Cardinality(S) + 1))
         /\ d_bar'[j][2] > 0
         /\ (d_bar'[j][1] = 0) <=> (dist_sum = 0)
C17_LiveCounter ==
  pc # "init" =>
    /\ \A g \in DOMAIN smz_count :
         /\ smz_count[g] = Cardinality({j \in VehIds :
                              smz_grp[j] = g /\ veh_exit_flag[j] = 0})
         /\ smz_count[g] >= 0
    /\ pc = "done" =>
         count_total = Cardinality({j \in VehIds :
                          smz_grp[j] > -1 /\ veh_exit_flag[j] = 0})

\* a finished run with a residue, next to a vehicle that exited
C17_Witness ==
  /\ pc = "done" /\ count_total >= 1
  /\ \E a \in VehIds : veh_exit_flag[a] = 1

\* C18 - at every exit event the live counter read before its decrement
\* equals d_count + 1.
C18_Step ==
  \A j \in VehIds :
    ExitEvent(j) => smz_count'[smz_grp'[j]] + 1 = d_count' + 1
C18_CounterAgreesWithScan == [][C18_Step]_vars

\* C19 - every observed id addresses an entry of the tables, and a non-empty
\* trace is reported to its end with one record per id from the smallest to
\* the largest, in ascending order.
C19_IdRangeCoverage ==
  /\ (i > 0 /\ Len(sta) = 0 /\ pc \in {"sim", "crashed"}) => v \in DOMAIN vehx
  /\ (pc = "crashed" /\ min_cid > 0) => (v > max_cid /\ Len(sta) > 0)
  /\ (pc \in {"out", "done"} \/ (pc = "crashed" /\ Len(sta) > 0)) =>
       /\ \A n \in 1..Len(sta) : sta[n].id = min_cid + n - 1
       /\ counter = Len(sta)
       /\ v > max_cid => counter = max_cid - min_cid + 1

\* C20 - a vehicle's first position is the position of its first sample and
\* is kept by later samples; its last position is that of its latest sample.
C20_Step ==
  SampleStep =>
    /\ veh_end_x'[v'] = cur_x' /\ veh_end_y'[v'] = cur_y'
    /\ veh_end_x[v'] = -1
         => (veh_begin_x'[v'] = cur_x' /\ veh_begin_y'[v'] = cur_y')
    /\ veh_end_x[v'] # -1
         => (veh_begin_x'[v'] = veh_begin_x[v'] /\ veh_begin_y'[v'] = veh_begin_y[v'])
C20_PositionBookkeeping == [][C20_Step]_vars

\* C14 - run isolation: the table left by a finished call of smz_stats is
\* not changed by a later call (which, sharing no state, would write its own
\* table elsewhere).
C14_Step ==
  (run > 1 /\ pc \in {"init", "sim"} /\ sta # <<>>) => sta' = sta
C14_RunIsolation == [][C14_Step]_vars

Malformed(f) ==
  \E n \in 1..Len(f) :
    Len(f[n]) # 4 \/ \E w \in 1..Len(f[n]) : ~IsNumber(f[n][w])

\* C13 - a file with a line of other than four fields, or with a word that
\* is not a number, ends the run with a parse error before any sample is
\* processed and before anything is written to the table.
C13_MalformedAborts ==
  Malformed(infile) => (pc \in {"load", "crashed"} /\ i = 0 /\ sta = <<>>)

\* a stamp of s2 halves rounded up to the next integer
CeilHalf(s2) == (s2 + 1) \div 2

\* the number of samples due for the first n lines of the trace file
RECURSIVE DueBefore(_)
DueBefore(n) ==
  IF n = 0 THEN 0 ELSE DueBefore(n - 1) + CeilHalf(mmts[n][7]) + 1

\* C15 - gen_traj writes, for every line with start T and duration D > 0,
\* exactly D+1 samples at the ticks T, T+1, ..., T+D with the line's vehicle
\* id, the first at the line's start coordinates; a line with D = 0 aborts
\* the program before any sample of that line is written.
C15_GenTraj ==
  /\ pc = "gen_done" =>
       /\ Len(gen_out) = DueBefore(Len(mmts))
       /\ \A n \in 1..Len(mmts) :
            LET T == CeilHalf(mmts[n][1])
                D == CeilHalf(mmts[n][7])
                off == DueBefore(n - 1)
            IN /\ D > 0
               /\ \A m \in 0..D : /\ gen_out[off + m + 1][1] = T + m
                                  /\ gen_out[off + m + 1][2] = mmts[n][2]
               /\ RatEq(gen_out[off + 1][3], Rat(mmts[n][3], 1))
               /\ RatEq(gen_out[off + 1][4], Rat(mmts[n][4], 1))
  /\ (pc = "gen_write" /\ ti <= Len(mmts) /\ CeilHalf(mmts[ti][7]) = 0)
       => Len(gen_out) = DueBefore(ti - 1)
  /\ (pc = "crashed" /\ mmts # <<>>) =>
       /\ CeilHalf(mmts[ti][7]) = 0
       /\ Len(gen_out) = DueBefore(ti - 1)

\* two lines were expanded, one of them with a rounded start and duration
C15_Witness ==
  /\ pc = "gen_done" /\ Len(mmts) = 2
  /\ \E n \in 1..2 : mmts[n][1] = 3 /\ mmts[n][7] = 3
  /\ Len(gen_out) >= 5

\* exited vehicles have a group and an entry time no later than their exit
C21_Inv ==
  pc # "init" =>
    \A j \in VehIds :
      veh_exit_flag[j] = 1 =>
        /\ smz_grp[j] > -1
        /\ smz_entry_time[j] > -1
        /\ smz_entry_time[j] <= region_exit_time[j]

C21_Step ==
  SampleStep =>
    LET vv == v'
        edge == NearEdge(cur_x', cur_y')
        zone == WithinRadius(cur_x', cur_y')
    IN /\ (smz_grp[vv] < 0 /\ edge /\ ~zone) =>
            /\ smz_grp'[vv] < 0
            /\ veh_exit_flag'[vv] = 0
            /\ region_exit_time'[vv] = -1
            /\ smz_count' = smz_count
            /\ smz_total' = smz_total
       /\ (smz_grp[vv] < 0 /\ edge /\ zone) =>
            /\ smz_grp'[vv] = cur_t' \div smz_duration
            /\ smz_entry_time'[vv] = cur_t'
            /\ veh_exit_flag'[vv] = 1
            /\ region_exit_time'[vv] = cur_t'

\* C21 - an exited vehicle always has a group and an entry time not after
\* its region exit time; an edge sample of a vehicle without a group sets no
\* exit flag and changes no counter; a sample of a vehicle without a group
\* that is within the radius and near an edge assigns the group and sets the
\* exit at the same tick.
C21_ExitNeedsAssignment == [][C21_Inv' /\ C21_Step]_vars

\* one vehicle was assigned and exited in the same sample, another was
\* seen at the edge outside the zone and has neither a group nor an exit
C21_Witness ==
  /\ pc = "sim"
  /\ \E a, b \in VehIds :
       /\ smz_grp[a] < 0 /\ veh_exit_flag[a] = 0
       /\ Observed(a) /\ NearEdge(veh_end_x[a], veh_end_y[a])
       /\ veh_exit_flag[b] = 1
       /\ smz_entry_time[b] = region_exit_time[b]

\* the fields of vehicle j that the frame of a sample step covers
Fields(j) ==
  <<smz_grp[j], smz_entry_time[j], smz_exit_time[j], veh_exit_flag[j],
    region_exit_time[j], k[j], d_bar[j], anon_duration[j], vehx[j], vehy[j]>>

C22_Step ==
  SampleStep =>
    LET vv == v'
        entered == IF smz_grp[vv] < 0 /\ smz_grp'[vv] > -1 THEN 1 ELSE 0
        exited == IF veh_exit_flag[vv] = 0 /\ veh_exit_flag'[vv] = 1 THEN 1 ELSE 0
    IN /\ \A j \in DOMAIN smz_grp \ {vv} : Fields(j)' = Fields(j)
       /\ DOMAIN smz_grp' = DOMAIN smz_grp
       /\ \A g \in DOMAIN smz_count :
            smz_count'[g] = IF g = smz_grp'[vv]
                            THEN smz_count[g] + entered - exited
                            ELSE smz_count[g]
       /\ smz_total' = smz_total + entered

\* C22 - a sample step of vehicle v leaves the group, entry time, scheduled
\* exit time, exit flag, region exit time, k, d_bar, anon_duration and
\* position of every other vehicle as they were; only the counter of v's
\* own group changes, by +1 when v enters and by -1 when v exits, and
\* smz_total grows by one exactly when v enters.
C22_SampleFrame == [][C22_Step]_vars

\* a vehicle has just exited next to a group peer that is still active in
\* the zone and to a vehicle that exited before
C22_Witness ==
  /\ pc = "sim"
  /\ veh_exit_flag[v] = 1 /\ region_exit_time[v] = cur_t /\ vehx[v] = -2
  /\ \E a, b \in VehIds \ {v} :
       /\ a # b
       /\ smz_grp[a] = smz_grp[v] /\ veh_exit_flag[a] = 0 /\ vehx[a] > -1
       /\ veh_exit_flag[b] = 1 /\ region_exit_time[b] < cur_t

====
